---------------------------- MODULE Spec2Model ----------------------------
(***************************************************************************)
(* A model of paracord's CommandVisitor                                    *)
(* (crates/paracord/src/interaction/visitor/command.rs): the lazy option   *)
(* map builder visit_opts, the typed accessors generated by visit_basic!,  *)
(* visit_subcmd, finish, the OptionVisitor finalizers and TargetVisitor.   *)
(*                                                                         *)
(* Rust's Option<T> is modelled as a sequence of length 0 (None) or 1      *)
(* (Some(x)); Result<T> as a record tagged "Ok" or "Err".                  *)
(***************************************************************************)
EXTENDS Naturals, Sequences, FiniteSets

(***************************************************************************)
(* Bounds of the input space.                                              *)
(***************************************************************************)
\* The largest number of options (at all nesting levels together) a
\* slash-command invocation carries.
MaxOptions == 3

\* The largest number of options a context-menu invocation carries (Discord
\* sends none; finish and visit_opts still guard against them).
MaxMenuOptions == 1

\* The largest number of entries a map of the resolved-entities table holds.
MaxEntities == 2

\* Option names a payload or a handler may use.
Names == {"a", "b"}

\* CommandType values.
CommandTypes == {"ChatInput", "User", "Message"}

\* CommandOptionType values: the two container kinds, and the leaf kind the
\* registered command declares for each option name.
SubKinds == {"SubCommand", "SubCommandGroup"}
DeclaredKind(name) == IF name = "a" THEN "String" ELSE "Boolean"

\* CommandDataOptionValue values (variant and payload) an option may resolve to.
Values ==
    { [variant |-> "String", payload |-> "cats"],
      [variant |-> "Boolean", payload |-> "true"] }

(***************************************************************************)
(* Option<T>, Result<T> and Error.                                         *)
(***************************************************************************)
None == << >>
Some(x) == << x >>

Unit == "()"
Ok(v) == [tag |-> "Ok", val |-> v]
Err(e) == [tag |-> "Err", err |-> e]

NotChatInput == [kind |-> "NotChatInput"]
MissingSubcommand == [kind |-> "MissingSubcommand"]
Malformed(msg) == [kind |-> "Malformed", msg |-> msg]
MissingOption(name) == [kind |-> "MissingOption", name |-> name]
UnhandledSubcommand(path) == [kind |-> "UnhandledSubcommand", path |-> path]
Trailing(names) == [kind |-> "Trailing", names |-> names]
NotUser == [kind |-> "NotUser"]
NotMessage == [kind |-> "NotMessage"]
BadOptionType(name, desc, t) ==
    [kind |-> "BadOptionType", name |-> name, expected |-> desc, actual |-> t]
BadOptionValueType(name, desc, d) ==
    [kind |-> "BadOptionValueType", name |-> name, expected |-> desc, actual |-> d]

(***************************************************************************)
(* The invocations: CommandData with its tree of CommandDataOption.  Only  *)
(* SubCommand and SubCommandGroup options carry nested options and they    *)
(* carry no resolved value, as in the payloads Discord sends; sibling      *)
(* names may repeat and container kinds may appear anywhere in a list.     *)
(***************************************************************************)
CommandDataOption(name, kind, resolved, options) ==
    [name |-> name, kind |-> kind, resolved |-> resolved, options |-> options]

LeafOptions ==
    { CommandDataOption(n, DeclaredKind(n), r, << >>) :
        n \in Names, r \in {None} \cup {Some(v) : v \in Values} }

\* OptionLists[n]: the option lists holding exactly n options, nested ones included.
OptionLists[n \in 0..(MaxOptions + MaxMenuOptions)] ==
    IF n = 0 THEN { << >> }
    ELSE UNION {
            { << o >> \o rest :
                o \in (IF k = 1 THEN LeafOptions ELSE {}) \cup
                      { CommandDataOption(nm, kd, None, sub) :
                          nm \in Names, kd \in SubKinds, sub \in OptionLists[k - 1] },
                rest \in OptionLists[n - k] }
            : k \in 1..n }

\* CommandDataResolved: the maps TargetVisitor reads, keyed by id.  The
\* entity stored under an id is named after it.
User(id) == << "User", id >>
PartialMember(id) == << "PartialMember", id >>
Message(id) == << "Message", id >>

CommandDataResolved(users, members, messages) ==
    [users |-> [id \in users |-> User(id)],
     members |-> [id \in members |-> PartialMember(id)],
     messages |-> [id \in messages |-> Message(id)]]

NoResolved == CommandDataResolved({}, {}, {})

ResolvedTables ==
    { CommandDataResolved(us, ms, gs) :
        us \in SUBSET (1..MaxEntities),
        ms \in SUBSET (1..MaxEntities),
        gs \in SUBSET (1..MaxEntities) }

CommandData(kind, options, resolved) ==
    [kind |-> kind, options |-> options, resolved |-> resolved]

\* The invocations of slash-command handlers: nothing is resolved beside
\* the option values.
Invocations ==
    { CommandData("ChatInput", os, NoResolved) :
        os \in UNION { OptionLists[n] : n \in 0..MaxOptions } }
    \cup
    { CommandData(k, os, NoResolved) :
        k \in CommandTypes \ {"ChatInput"},
        os \in UNION { OptionLists[n] : n \in 0..MaxMenuOptions } }

\* The invocations of handlers that use target(): any resolved table, and
\* at most one option.
TargetInvocations ==
    { CommandData(k, os, rs) :
        k \in CommandTypes,
        os \in OptionLists[0] \cup OptionLists[1],
        rs \in ResolvedTables }

(***************************************************************************)
(* Value Descriptor.                                                       *)
(***************************************************************************)
describe(v) ==
    CASE v.variant = "String" -> "String"
      [] v.variant = "Integer" -> "Integer"
      [] v.variant = "Boolean" -> "Boolean"
      [] v.variant = "User" -> "User"
      [] v.variant = "Channel" -> "Channel"
      [] v.variant = "Role" -> "Role"
      [] v.variant = "Number" -> "Number"
      [] v.variant = "Attachment" -> "Attachment"
      [] OTHER -> "Unknown"

(***************************************************************************)
(* VisitorState and the option map builder.                                *)
(***************************************************************************)
StateInit == [tag |-> "Init"]
SlashCommand(m) == [tag |-> "SlashCommand", map |-> m]

IsSub(kind) == kind \in SubKinds

\* Faulty variant of CollectMap: the first option of a name is kept.
CollectMapFirstWins(opts) ==
    [ n \in { opts[i].name : i \in DOMAIN opts } |->
        opts[CHOOSE i \in DOMAIN opts :
                /\ opts[i].name = n
                /\ \A j \in DOMAIN opts : opts[j].name = n => i <= j] ]

\* collect() into a HashMap: a later option replaces an earlier one of the
\* same name.
CollectMap(opts) ==
    [ n \in { opts[i].name : i \in DOMAIN opts } |->
        opts[CHOOSE i \in DOMAIN opts :
                /\ opts[i].name = n
                /\ \A j \in DOMAIN opts : opts[j].name = n => j <= i] ]

\* The while-let loop of visit_opts: follow the first option of each level
\* while it is a subcommand or a group.
RECURSIVE Descend(_, _)
\* Faulty variant of Descend: a sibling after the subcommand goes unnoticed.
DescendNoSiblingCheck(opts, subcmd) ==
    IF opts # << >> /\ IsSub(opts[1].kind)
    THEN Descend(opts[1].options, Append(subcmd, opts[1].name))
    ELSE Ok([subcmd |-> subcmd, opts |-> opts])

Descend(opts, subcmd) ==
    IF opts # << >> /\ IsSub(opts[1].kind)
    THEN IF Len(opts) > 1
         THEN Err(Malformed("Found normal option after subcommand"))
         ELSE Descend(opts[1].options, Append(subcmd, opts[1].name))
    ELSE Ok([subcmd |-> subcmd, opts |-> opts])

\* visit_opts: the result, the Option<Subcommand> it hands out and the
\* visitor state it leaves.
VisitOpts(res, subcmd, st) == [res |-> res, subcmd |-> subcmd, state |-> st]

\* Faulty variant of visit_opts: the map is collected from the top-level
\* options instead of the level the descent stopped at.
visit_opts_top_level(st, data) ==
    IF st.tag = "SlashCommand" THEN VisitOpts(Ok(Unit), None, st)
    ELSE IF data.kind # "ChatInput" THEN VisitOpts(Err(NotChatInput), None, st)
    ELSE LET d == Descend(data.options, << >>) IN
         IF d.tag = "Err" THEN VisitOpts(d, None, st)
         ELSE VisitOpts(Ok(Unit),
                        IF d.val.subcmd # << >> THEN Some(d.val.subcmd) ELSE None,
                        SlashCommand(CollectMap(data.options)))

\* Faulty variant of visit_opts: the level the descent stopped at is not
\* scanned for subcommands.
visit_opts_no_leaf_check(st, data) ==
    IF st.tag = "SlashCommand" THEN VisitOpts(Ok(Unit), None, st)
    ELSE IF data.kind # "ChatInput" THEN VisitOpts(Err(NotChatInput), None, st)
    ELSE LET d == Descend(data.options, << >>) IN
         IF d.tag = "Err" THEN VisitOpts(d, None, st)
         ELSE VisitOpts(Ok(Unit),
                        IF d.val.subcmd # << >> THEN Some(d.val.subcmd) ELSE None,
                        SlashCommand(CollectMap(d.val.opts)))

\* Faulty variant of visit_opts: the invocation kind is not looked at.
visit_opts_any_kind(st, data) ==
    IF st.tag = "SlashCommand" THEN VisitOpts(Ok(Unit), None, st)
    ELSE LET d == Descend(data.options, << >>) IN
         IF d.tag = "Err" THEN VisitOpts(d, None, st)
         ELSE IF \E i \in DOMAIN d.val.opts : IsSub(d.val.opts[i].kind)
         THEN VisitOpts(Err(Malformed("Found subcommand after normal option(s)")),
                        None, st)
         ELSE VisitOpts(Ok(Unit),
                        IF d.val.subcmd # << >> THEN Some(d.val.subcmd) ELSE None,
                        SlashCommand(CollectMap(d.val.opts)))

\* Variant of visit_opts that hands out the path on every call, as if it
\* were cached beside the map.
visit_opts_cached_path(st, data) ==
    LET d == Descend(data.options, << >>) IN
    IF st.tag = "SlashCommand"
    THEN VisitOpts(Ok(Unit),
                   IF d.val.subcmd # << >> THEN Some(d.val.subcmd) ELSE None, st)
    ELSE IF data.kind # "ChatInput" THEN VisitOpts(Err(NotChatInput), None, st)
    ELSE IF d.tag = "Err" THEN VisitOpts(d, None, st)
         ELSE IF \E i \in DOMAIN d.val.opts : IsSub(d.val.opts[i].kind)
         THEN VisitOpts(Err(Malformed("Found subcommand after normal option(s)")),
                        None, st)
         ELSE VisitOpts(Ok(Unit),
                        IF d.val.subcmd # << >> THEN Some(d.val.subcmd) ELSE None,
                        SlashCommand(CollectMap(d.val.opts)))

\* Faulty variant of visit_opts: the state is set before the options are
\* validated, so a failure leaves an empty map behind.
visit_opts_state_first(st, data) ==
    IF st.tag = "SlashCommand" THEN VisitOpts(Ok(Unit), None, st)
    ELSE IF data.kind # "ChatInput" THEN VisitOpts(Err(NotChatInput), None, st)
    ELSE LET d == Descend(data.options, << >>) IN
         IF d.tag = "Err" THEN VisitOpts(d, None, SlashCommand(<< >>))
         ELSE IF \E i \in DOMAIN d.val.opts : IsSub(d.val.opts[i].kind)
         THEN VisitOpts(Err(Malformed("Found subcommand after normal option(s)")),
                        None, SlashCommand(<< >>))
         ELSE VisitOpts(Ok(Unit),
                        IF d.val.subcmd # << >> THEN Some(d.val.subcmd) ELSE None,
                        SlashCommand(CollectMap(d.val.opts)))

visit_opts(st, data) ==
    IF st.tag = "SlashCommand" THEN VisitOpts(Ok(Unit), None, st)
    ELSE IF data.kind # "ChatInput" THEN VisitOpts(Err(NotChatInput), None, st)
    ELSE LET d == Descend(data.options, << >>) IN
         IF d.tag = "Err" THEN VisitOpts(d, None, st)
         ELSE IF \E i \in DOMAIN d.val.opts : IsSub(d.val.opts[i].kind)
         THEN VisitOpts(Err(Malformed("Found subcommand after normal option(s)")),
                        None, st)
         ELSE VisitOpts(Ok(Unit),
                        IF d.val.subcmd # << >> THEN Some(d.val.subcmd) ELSE None,
                        SlashCommand(CollectMap(d.val.opts)))

\* visit_opt: the result (on Ok, the Option<&CommandDataOption> removed from
\* the map) and the visitor state it leaves.
VisitOpt(res, st) == [res |-> res, state |-> st]

\* Faulty variant of visit_opt: the option is looked up but left in the map.
visit_opt_get(st, data, name) ==
    LET vo == visit_opts(st, data) IN
    IF vo.res.tag = "Err" THEN VisitOpt(vo.res, vo.state)
    ELSE IF vo.subcmd # None
    THEN VisitOpt(Err(UnhandledSubcommand(vo.subcmd[1])), vo.state)
    ELSE LET m == vo.state.map IN
         IF name \in DOMAIN m THEN VisitOpt(Ok(Some(m[name])), vo.state)
         ELSE VisitOpt(Ok(None), vo.state)

visit_opt(st, data, name) ==
    LET vo == visit_opts(st, data) IN
    IF vo.res.tag = "Err" THEN VisitOpt(vo.res, vo.state)
    ELSE IF vo.subcmd # None
    THEN VisitOpt(Err(UnhandledSubcommand(vo.subcmd[1])), vo.state)
    ELSE LET m == vo.state.map IN
         IF name \in DOMAIN m
         THEN VisitOpt(Ok(Some(m[name])),
                       SlashCommand([n \in DOMAIN m \ {name} |-> m[n]]))
         ELSE VisitOpt(Ok(None), vo.state)

(***************************************************************************)
(* OptionVisitor and the typed accessors of visit_basic!.                  *)
(***************************************************************************)
OptionVisitor(name, v) == [name |-> name, value |-> v]

optional(ov) == ov.value

required(ov) ==
    IF ov.value = None THEN Err(MissingOption(ov.name)) ELSE Ok(ov.value[1])

\* The body of one generated accessor, given what visit_opt returned:
\* var is the CommandOptionType / CommandDataOptionValue variant it expects
\* and desc its doc label.
\* Faulty variant of visit_basic: the resolved value is matched before the
\* declared kind.
visit_basic_value_first(r, var, desc, name) ==
    IF r.tag = "Err" THEN r
    ELSE IF r.val = None THEN Ok(OptionVisitor(name, None))
    ELSE LET opt == r.val[1] IN
         IF opt.resolved # None /\ opt.resolved[1].variant # var
         THEN Err(BadOptionValueType(name, desc, describe(opt.resolved[1])))
         ELSE IF opt.kind # var THEN Err(BadOptionType(name, desc, opt.kind))
         ELSE IF opt.resolved = None THEN Ok(OptionVisitor(name, None))
         ELSE Ok(OptionVisitor(name, Some(opt.resolved[1].payload)))

\* Faulty variant of visit_basic: the resolved value's variant is not matched.
visit_basic_unchecked_value(r, var, desc, name) ==
    IF r.tag = "Err" THEN r
    ELSE IF r.val = None THEN Ok(OptionVisitor(name, None))
    ELSE LET opt == r.val[1] IN
         IF opt.kind # var THEN Err(BadOptionType(name, desc, opt.kind))
         ELSE IF opt.resolved = None THEN Ok(OptionVisitor(name, None))
         ELSE Ok(OptionVisitor(name, Some(opt.resolved[1].payload)))

\* Faulty variant of visit_basic: an absent option fails with MissingOption.
visit_basic_absent_is_error(r, var, desc, name) ==
    IF r.tag = "Err" THEN r
    ELSE IF r.val = None THEN Err(MissingOption(name))
    ELSE LET opt == r.val[1] IN
         IF opt.kind # var THEN Err(BadOptionType(name, desc, opt.kind))
         ELSE IF opt.resolved = None THEN Ok(OptionVisitor(name, None))
         ELSE IF opt.resolved[1].variant = var
         THEN Ok(OptionVisitor(name, Some(opt.resolved[1].payload)))
         ELSE Err(BadOptionValueType(name, desc, describe(opt.resolved[1])))

\* Faulty variant of visit_basic: an option without resolved value fails
\* with MissingOption.
visit_basic_unresolved_is_error(r, var, desc, name) ==
    IF r.tag = "Err" THEN r
    ELSE IF r.val = None THEN Ok(OptionVisitor(name, None))
    ELSE LET opt == r.val[1] IN
         IF opt.kind # var THEN Err(BadOptionType(name, desc, opt.kind))
         ELSE IF opt.resolved = None THEN Err(MissingOption(name))
         ELSE IF opt.resolved[1].variant = var
         THEN Ok(OptionVisitor(name, Some(opt.resolved[1].payload)))
         ELSE Err(BadOptionValueType(name, desc, describe(opt.resolved[1])))

visit_basic(r, var, desc, name) ==
    IF r.tag = "Err" THEN r
    ELSE IF r.val = None THEN Ok(OptionVisitor(name, None))
    ELSE LET opt == r.val[1] IN
         IF opt.kind # var THEN Err(BadOptionType(name, desc, opt.kind))
         ELSE IF opt.resolved = None THEN Ok(OptionVisitor(name, None))
         ELSE IF opt.resolved[1].variant = var
         THEN Ok(OptionVisitor(name, Some(opt.resolved[1].payload)))
         ELSE Err(BadOptionValueType(name, desc, describe(opt.resolved[1])))

\* The accessors modelled: the variant each expects and its doc label.
Accessors == {"visit_string", "visit_bool"}
Var(fn) == IF fn = "visit_string" THEN "String" ELSE "Boolean"
Desc(fn) == IF fn = "visit_string" THEN "a string" ELSE "a Boolean"

(***************************************************************************)
(* visit_subcmd and finish.                                                *)
(***************************************************************************)
visit_subcmd(st, data) ==
    LET vo == visit_opts(st, data) IN
    IF vo.res.tag = "Err" THEN VisitOpt(vo.res, vo.state)
    ELSE IF vo.subcmd = None THEN VisitOpt(Err(MissingSubcommand), vo.state)
    ELSE VisitOpt(Ok(vo.subcmd[1]), vo.state)

\* The orders in which a HashMap may hand out the keys S.
KeyOrders(S) ==
    { s \in [1..Cardinality(S) -> S] : \A i, j \in DOMAIN s : s[i] = s[j] => i = j }

\* finish: the results it may return (into_keys() yields the remaining names
\* in the map's iteration order).
\* Faulty variant of finish: the Init branch does not look at the kind.
finish_any_kind(st, data) ==
    IF st.tag = "Init"
    THEN IF data.options # << >>
         THEN { Err(Trailing([i \in DOMAIN data.options |-> data.options[i].name])) }
         ELSE { Ok(Unit) }
    ELSE IF DOMAIN st.map # {}
         THEN { Err(Trailing(s)) : s \in KeyOrders(DOMAIN st.map) }
         ELSE { Ok(Unit) }

finish(st, data) ==
    IF st.tag = "Init"
    THEN IF data.kind = "ChatInput" /\ data.options # << >>
         THEN { Err(Trailing([i \in DOMAIN data.options |-> data.options[i].name])) }
         ELSE { Ok(Unit) }
    ELSE IF DOMAIN st.map # {}
         THEN { Err(Trailing(s)) : s \in KeyOrders(DOMAIN st.map) }
         ELSE { Ok(Unit) }

(***************************************************************************)
(* target() and TargetVisitor.                                             *)
(***************************************************************************)
TargetVisitor(kind, resolved) == [kind |-> kind, resolved |-> resolved]

\* Faulty variant of target: it runs the option map builder on its way.
target_builds(st, data) ==
    VisitOpt(TargetVisitor(data.kind, data.resolved), visit_opts(st, data).state)

\* target(&self): the TargetVisitor it returns and the visitor state it leaves.
target(st, data) == VisitOpt(TargetVisitor(data.kind, data.resolved), st)

\* Faulty variant of pull_single_opt: further entries go unnoticed.
pull_single_opt_first(map, name) ==
    IF DOMAIN map = {} THEN Ok(None)
    ELSE LET k == CHOOSE k \in DOMAIN map : TRUE IN Ok(Some(<< k, map[k] >>))

\* pull_single_opt: the first pair the map's iterator yields, if it is the
\* only one.
pull_single_opt(map, name) ==
    IF DOMAIN map = {} THEN Ok(None)
    ELSE LET k == CHOOSE k \in DOMAIN map : TRUE IN
         IF DOMAIN map \ {k} = {}
         THEN Ok(Some(<< k, map[k] >>))
         ELSE Err(Trailing(<< name >>))

pull_single(map, name) ==
    LET o == pull_single_opt(map, name) IN
    IF o.tag = "Err" THEN o
    ELSE IF o.val = None THEN Err(MissingOption(name))
    ELSE Ok(o.val[1])

\* Faulty variant of user: the member is pulled before the user.
user_member_first(tv) ==
    IF tv.kind # "User" THEN Err(NotUser)
    ELSE LET memb == pull_single_opt(tv.resolved.members, "member") IN
         IF memb.tag = "Err" THEN memb
         ELSE LET u == pull_single(tv.resolved.users, "user") IN
              IF u.tag = "Err" THEN u
              ELSE Ok(<< u.val[2],
                         IF memb.val = None THEN None ELSE Some(memb.val[1][2]) >>)

\* TargetVisitor::user: Ok holds the pair (user, Option<member>).
user(tv) ==
    IF tv.kind # "User" THEN Err(NotUser)
    ELSE LET u == pull_single(tv.resolved.users, "user") IN
         IF u.tag = "Err" THEN u
         ELSE LET memb == pull_single_opt(tv.resolved.members, "member") IN
              IF memb.tag = "Err" THEN memb
              ELSE Ok(<< u.val[2],
                         IF memb.val = None THEN None ELSE Some(memb.val[1][2]) >>)

\* Faulty variant of message: the invocation kind is not looked at.
message_any_kind(tv) ==
    LET m == pull_single(tv.resolved.messages, "message") IN
    IF m.tag = "Err" THEN m ELSE Ok(m.val[2])

\* TargetVisitor::message
message(tv) ==
    IF tv.kind # "Message" THEN Err(NotMessage)
    ELSE LET m == pull_single(tv.resolved.messages, "message") IN
         IF m.tag = "Err" THEN m ELSE Ok(m.val[2])

(***************************************************************************)
(* The visitor as a state machine driven by a handler.                     *)
(***************************************************************************)
VARIABLES
    data,      \* base.int.data(): the invocation the visitor borrows
    state,     \* CommandVisitor::state
    alive,     \* FALSE once finish(self) has consumed the visitor
    op,        \* the last call made: what was called and what it met
    ret,       \* what the last call returned
    consumed,  \* the names typed accessors were handed an option for
    gotPath,   \* TRUE once visit_subcmd has returned a path
    builderFailed  \* TRUE once visit_opts has returned an error

vars == << data, state, alive, op, ret, consumed, gotPath, builderFailed >>

\* op.fresh: the visitor was in state Init when the call was made;
\* op.again: an accessor had been handed an option of that name before;
\* op.taken: the Option<&CommandDataOption> visit_opt returned to the accessor.
Call(fn, name, fresh, again, taken) ==
    [fn |-> fn, name |-> name, fresh |-> fresh, again |-> again, taken |-> taken]

\* CommandVisitor::new
Init ==
    /\ data \in Invocations
    /\ state = StateInit
    /\ alive = TRUE
    /\ op = Call("new", "", TRUE, FALSE, None)
    /\ ret = Ok(Unit)
    /\ consumed = {}
    /\ gotPath = FALSE
    /\ builderFailed = FALSE

\* CommandVisitor::new in a handler that uses target()
InitTarget ==
    /\ data \in TargetInvocations
    /\ state = StateInit
    /\ alive = TRUE
    /\ op = Call("new", "", TRUE, FALSE, None)
    /\ ret = Ok(Unit)
    /\ consumed = {}
    /\ gotPath = FALSE
    /\ builderFailed = FALSE

\* visit_string(name), visit_bool(name)
Visit(fn, name) ==
    /\ alive
    /\ LET r == visit_opt(state, data, name)
           taken == IF r.res.tag = "Ok" THEN r.res.val ELSE None
       IN /\ state' = r.state
          /\ ret' = visit_basic(r.res, Var(fn), Desc(fn), name)
          /\ op' = Call(fn, name, state.tag = "Init", name \in consumed, taken)
          /\ consumed' = IF taken # None THEN consumed \cup {name} ELSE consumed
          /\ builderFailed' = (builderFailed \/ visit_opts(state, data).res.tag = "Err")
    /\ UNCHANGED << data, alive, gotPath >>

visit_string == \E name \in Names : Visit("visit_string", name)

visit_bool == \E name \in Names : Visit("visit_bool", name)

\* visit_subcmd()
VisitSubcmd ==
    /\ alive
    /\ LET r == visit_subcmd(state, data)
       IN /\ state' = r.state
          /\ ret' = r.res
          /\ gotPath' = (gotPath \/ r.res.tag = "Ok")
    /\ builderFailed' = (builderFailed \/ visit_opts(state, data).res.tag = "Err")
    /\ op' = Call("visit_subcmd", "", state.tag = "Init", FALSE, None)
    /\ UNCHANGED << data, alive, consumed >>

\* OptionVisitor::optional on the OptionVisitor the last accessor returned
Optional ==
    /\ alive
    /\ op.fn \in Accessors
    /\ ret.tag = "Ok"
    /\ ret' = optional(ret.val)
    /\ op' = [fn |-> "optional", ov |-> ret.val]
    /\ UNCHANGED << data, state, alive, consumed, gotPath, builderFailed >>

\* OptionVisitor::required on the OptionVisitor the last accessor returned
Required ==
    /\ alive
    /\ op.fn \in Accessors
    /\ ret.tag = "Ok"
    /\ ret' = required(ret.val)
    /\ op' = [fn |-> "required", ov |-> ret.val]
    /\ UNCHANGED << data, state, alive, consumed, gotPath, builderFailed >>

\* finish(self): consumes the visitor
Finish ==
    /\ alive
    /\ \E r \in finish(state, data) : ret' = r
    /\ alive' = FALSE
    /\ op' = Call("finish", "", state.tag = "Init", FALSE, None)
    /\ UNCHANGED << data, state, consumed, gotPath, builderFailed >>

\* target().user()
TargetUser ==
    /\ alive
    /\ LET t == target(state, data)
       IN /\ state' = t.state
          /\ ret' = user(t.res)
    /\ op' = Call("user", "", state.tag = "Init", FALSE, None)
    /\ UNCHANGED << data, alive, consumed, gotPath, builderFailed >>

\* target().message()
TargetMessage ==
    /\ alive
    /\ LET t == target(state, data)
       IN /\ state' = t.state
          /\ ret' = message(t.res)
    /\ op' = Call("message", "", state.tag = "Init", FALSE, None)
    /\ UNCHANGED << data, alive, consumed, gotPath, builderFailed >>

Next ==
    \/ visit_string
    \/ visit_bool
    \/ VisitSubcmd
    \/ Optional
    \/ Required
    \/ Finish

\* Handlers of slash commands: target() is not used.
Spec == Init /\ [][Next]_vars

NextTarget ==
    \/ Next
    \/ TargetUser
    \/ TargetMessage

\* Handlers that use target() beside the other operations.
SpecTarget == InitTarget /\ [][NextTarget]_vars

(***************************************************************************)
(* What the claims speak of, stated on the invocation itself.              *)
(***************************************************************************)
\* The names of the options leading the levels of a chain of subcommands.
RECURSIVE SubcommandPath(_)
SubcommandPath(opts) ==
    IF opts # << >> /\ opts[1].kind \in SubKinds
    THEN << opts[1].name >> \o SubcommandPath(opts[1].options)
    ELSE << >>

\* The options of the innermost subcommand: the level the chain ends at.
RECURSIVE InnermostOptions(_)
InnermostOptions(opts) ==
    IF opts # << >> /\ opts[1].kind \in SubKinds
    THEN InnermostOptions(opts[1].options)
    ELSE opts

InnermostNames ==
    { InnermostOptions(data.options)[i].name :
        i \in DOMAIN InnermostOptions(data.options) }

\* A subcommand or group leading a level has a sibling at that level.
RECURSIVE SiblingAfterSubcommand(_)
SiblingAfterSubcommand(opts) ==
    /\ opts # << >>
    /\ opts[1].kind \in SubKinds
    /\ (Len(opts) > 1 \/ SiblingAfterSubcommand(opts[1].options))

\* A slash-command invocation whose subcommands are sole options and whose
\* innermost level holds no subcommand: one the builder accepts.
WellFormed ==
    /\ data.kind = "ChatInput"
    /\ ~SiblingAfterSubcommand(data.options)
    /\ \A i \in DOMAIN InnermostOptions(data.options) :
          InnermostOptions(data.options)[i].kind \notin SubKinds

HasSubcommand == WellFormed /\ SubcommandPath(data.options) # << >>

IsErr(r, kind) == r.tag = "Err" /\ r.err.kind = kind

Range(s) == { s[i] : i \in DOMAIN s }

(***************************************************************************)
(* The claims.                                                             *)
(***************************************************************************)

\* C1: once the option map is built, finish() returns Ok iff the map is
\* empty, and otherwise Trailing whose names are, as a set, exactly the
\* innermost-level option names that no typed accessor was handed.
C1_FinishReportsUnconsumed ==
    (op.fn = "finish" /\ state.tag = "SlashCommand") =>
        /\ (ret.tag = "Ok") <=> (DOMAIN state.map = {})
        /\ (ret.tag = "Ok") <=> (InnermostNames \ consumed = {})
        /\ ret.tag # "Ok" =>
              /\ IsErr(ret, "Trailing")
              /\ Range(ret.err.names) = InnermostNames \ consumed
              /\ Len(ret.err.names) = Cardinality(InnermostNames \ consumed)

\* C1 witness: finish() reports a trailing name after another was consumed.
C1_Witness ==
    /\ op.fn = "finish"
    /\ state.tag = "SlashCommand"
    /\ consumed # {}
    /\ IsErr(ret, "Trailing")

C3_EveryEarlyAccessorFails ==
    (HasSubcommand /\ op.fn \in Accessors /\ ~gotPath) =>
        /\ IsErr(ret, "UnhandledSubcommand")
        /\ ret.err.path = SubcommandPath(data.options)

\* C4 (as claimed): every visit_subcmd() call on a visitor returns the same
\* cached path, or MissingSubcommand on every call if there is no subcommand.
C4_PathMemoized ==
    (WellFormed /\ op.fn = "visit_subcmd") =>
        IF SubcommandPath(data.options) # << >>
        THEN ret.tag = "Ok" /\ ret.val = SubcommandPath(data.options)
        ELSE IsErr(ret, "MissingSubcommand")

\* C5: a name is consumed at most once: a typed accessor called for a name
\* an accessor was already handed an option for returns an OptionVisitor
\* without value, and once built the map's key set only shrinks.
C5_ConsumedAtMostOnce ==
    [][ /\ state.tag = "SlashCommand" =>
              /\ state'.tag = "SlashCommand"
              /\ DOMAIN state'.map \subseteq DOMAIN state.map
        /\ (op'.fn \in Accessors /\ op'.name \in consumed) =>
              /\ ret'.tag = "Ok"
              /\ ret'.val = OptionVisitor(op'.name, None)
              /\ op'.taken = None ]_vars

\* C5 witness: an accessor is called again for a name already consumed.
C5_Witness ==
    /\ op.fn \in Accessors
    /\ op.again
    /\ ret.tag = "Ok"
    /\ ret.val.value = None

\* C6: an accessor handed an option of its own declared kind returns the
\* payload when the resolved value has its variant, and fails with
\* BadOptionValueType(name, its label, the value's descriptor) when the
\* resolved value has another variant.
C6_ValueVariantChecked ==
    (/\ op.fn \in Accessors
     /\ op.taken # None
     /\ op.taken[1].kind = Var(op.fn)
     /\ op.taken[1].resolved # None) =>
        LET v == op.taken[1].resolved[1] IN
        IF v.variant = Var(op.fn)
        THEN ret.tag = "Ok" /\ ret.val = OptionVisitor(op.name, Some(v.payload))
        ELSE /\ IsErr(ret, "BadOptionValueType")
             /\ ret.err = BadOptionValueType(op.name, Desc(op.fn), v.variant)

\* C6 witness: visit_bool on a Boolean option whose resolved value is a string.
C6_Witness ==
    /\ op.fn = "visit_bool"
    /\ op.taken # None
    /\ op.taken[1].kind = "Boolean"
    /\ IsErr(ret, "BadOptionValueType")
    /\ ret.err.actual = "String"

\* C7: an accessor handed an option of another declared kind fails with
\* BadOptionType(name, its label, the declared kind), whatever the resolved
\* value is.
C7_DeclaredKindCheckedFirst ==
    (/\ op.fn \in Accessors
     /\ op.taken # None
     /\ op.taken[1].kind # Var(op.fn)) =>
        /\ IsErr(ret, "BadOptionType")
        /\ ret.err = BadOptionType(op.name, Desc(op.fn), op.taken[1].kind)

\* C7 witness: the declared kind is wrong while the resolved value has the
\* accessor's variant.
C7_Witness ==
    /\ op.fn \in Accessors
    /\ op.taken # None
    /\ op.taken[1].kind # Var(op.fn)
    /\ op.taken[1].resolved # None
    /\ op.taken[1].resolved[1].variant = Var(op.fn)
    /\ IsErr(ret, "BadOptionType")

\* C8: an accessor that finds no option of the name in the built map returns
\* Ok(OptionVisitor(name, None)); optional() yields the held Option as is;
\* required() fails with MissingOption(name) on None and returns the value
\* otherwise.
C8_AbsenceDeferred ==
    /\ (/\ op.fn \in Accessors
        /\ state.tag = "SlashCommand"
        /\ (~op.fresh \/ SubcommandPath(data.options) = << >>)
        /\ op.taken = None) =>
           (ret.tag = "Ok" /\ ret.val = OptionVisitor(op.name, None))
    /\ op.fn = "optional" => ret = op.ov.value
    /\ op.fn = "required" =>
           IF op.ov.value = None
           THEN IsErr(ret, "MissingOption") /\ ret.err.name = op.ov.name
           ELSE ret.tag = "Ok" /\ ret.val = op.ov.value[1]

\* C8 witness: required() on the result for an absent option.
C8_Witness ==
    /\ op.fn = "required"
    /\ op.ov.value = None
    /\ op.ov.name \notin InnermostNames
    /\ IsErr(ret, "MissingOption")

\* C9: finish() on a visitor in state Init fails with Trailing listing the
\* top-level option names iff the invocation is ChatInput with a non-empty
\* option list, and returns Ok otherwise.
C9_FinishInInit ==
    (op.fn = "finish" /\ state.tag = "Init") =>
        IF data.kind = "ChatInput" /\ data.options # << >>
        THEN /\ IsErr(ret, "Trailing")
             /\ ret.err.names = [i \in DOMAIN data.options |-> data.options[i].name]
        ELSE ret.tag = "Ok"

\* C9 witness: finish() straight after new() on a slash command with two
\* top-level options.
C9_Witness ==
    /\ op.fn = "finish"
    /\ state.tag = "Init"
    /\ data.kind = "ChatInput"
    /\ Len(data.options) = 2
    /\ IsErr(ret, "Trailing")

\* C10: when a subcommand or group leading a level reached by the descent
\* has a sibling, every typed accessor and visit_subcmd() call fails with
\* Malformed("Found normal option after subcommand") and no map is built.
C10_SiblingAfterSubcommand ==
    (data.kind = "ChatInput" /\ SiblingAfterSubcommand(data.options)) =>
        /\ state.tag = "Init"
        /\ op.fn \in Accessors \cup {"visit_subcmd"} =>
              /\ IsErr(ret, "Malformed")
              /\ ret.err.msg = "Found normal option after subcommand"

\* C10 witness: the sibling sits one level down, beside a nested subcommand.
C10_Witness ==
    /\ data.kind = "ChatInput"
    /\ Len(data.options) = 1
    /\ SiblingAfterSubcommand(data.options)
    /\ op.fn \in Accessors
    /\ IsErr(ret, "Malformed")

\* The option the map holds for name n when built from opts: the last one.
LastNamed(opts, n) ==
    opts[CHOOSE i \in DOMAIN opts :
            /\ opts[i].name = n
            /\ \A j \in DOMAIN opts : j > i => opts[j].name # n]

BuilderCalls == Accessors \cup {"visit_subcmd"}

\* C11: when the level the descent stops at holds a subcommand or group, the
\* builder fails with Malformed("Found subcommand after normal option(s)"),
\* so no entry of a built map (and no option handed to an accessor) has
\* kind SubCommand or SubCommandGroup.
C11_NoSubcommandInMap ==
    /\ (/\ data.kind = "ChatInput"
        /\ ~SiblingAfterSubcommand(data.options)
        /\ \E i \in DOMAIN InnermostOptions(data.options) :
              InnermostOptions(data.options)[i].kind \in SubKinds) =>
           /\ state.tag = "Init"
           /\ op.fn \in BuilderCalls =>
                 /\ IsErr(ret, "Malformed")
                 /\ ret.err.msg = "Found subcommand after normal option(s)"
    /\ state.tag = "SlashCommand" =>
           \A n \in DOMAIN state.map : state.map[n].kind \notin SubKinds
    /\ (op.fn \in Accessors /\ op.taken # None) => op.taken[1].kind \notin SubKinds

\* C11 witness: inside a subcommand, a subcommand follows a normal option.
C11_Witness ==
    /\ data.kind = "ChatInput"
    /\ SubcommandPath(data.options) # << >>
    /\ op.fn \in Accessors
    /\ IsErr(ret, "Malformed")
    /\ ret.err.msg = "Found subcommand after normal option(s)"

\* C12: on an invocation that is not ChatInput every typed accessor and
\* visit_subcmd() fails with NotChatInput, whatever the options are, and the
\* visitor stays in state Init.
C12_NotChatInput ==
    data.kind # "ChatInput" =>
        /\ state.tag = "Init"
        /\ op.fn \in BuilderCalls => IsErr(ret, "NotChatInput")

\* C12 witness: visit_subcmd() on a user-context-menu invocation that
\* carries a subcommand option.
C12_Witness ==
    /\ data.kind = "User"
    /\ SubcommandPath(data.options) # << >>
    /\ op.fn = "visit_subcmd"
    /\ IsErr(ret, "NotChatInput")

\* C16: with sibling options of one name at the innermost level the map is
\* built all the same, holds for each name the last option of that name, an
\* accessor is only ever handed that last option, and finish() reports each
\* remaining name once and no consumed name.
C16_LastDuplicateWins ==
    /\ (WellFormed /\ op.fn \in BuilderCalls) => state.tag = "SlashCommand"
    /\ state.tag = "SlashCommand" =>
           \A n \in DOMAIN state.map :
              state.map[n] = LastNamed(InnermostOptions(data.options), n)
    /\ (op.fn \in Accessors /\ op.taken # None) =>
           op.taken[1] = LastNamed(InnermostOptions(data.options), op.name)
    /\ (op.fn = "finish" /\ state.tag = "SlashCommand" /\ ret.tag = "Err") =>
           /\ Range(ret.err.names) \cap consumed = {}
           /\ \A i, j \in DOMAIN ret.err.names :
                 ret.err.names[i] = ret.err.names[j] => i = j

\* C16 witness: two different sibling options share a name, the accessor
\* returned the value of the second, and finish() then succeeded.
C16_Witness ==
    /\ op.fn = "finish"
    /\ ret.tag = "Ok"
    /\ consumed # {}
    /\ LET opts == InnermostOptions(data.options) IN
       /\ Len(opts) = 2
       /\ opts[1].name = opts[2].name
       /\ opts[1] # opts[2]

BuilderRejects == data.kind # "ChatInput" \/ ~WellFormed

BuilderError ==
    IF data.kind # "ChatInput" THEN NotChatInput
    ELSE IF SiblingAfterSubcommand(data.options)
    THEN Malformed("Found normal option after subcommand")
    ELSE Malformed("Found subcommand after normal option(s)")

\* C19: a builder failure leaves the visitor in state Init: every typed
\* accessor and visit_subcmd() call returns the same error again, and a
\* finish() after it fails with Trailing of all top-level names on a
\* malformed ChatInput invocation and returns Ok on a context-menu one.
C19_BuilderFailureLeavesInit ==
    /\ builderFailed => (state.tag = "Init" /\ BuilderRejects)
    /\ (BuilderRejects /\ op.fn \in BuilderCalls) =>
           /\ builderFailed
           /\ ret.tag = "Err"
           /\ ret.err = BuilderError
    /\ (builderFailed /\ op.fn = "finish") =>
           IF data.kind = "ChatInput"
           THEN /\ IsErr(ret, "Trailing")
                /\ ret.err.names =
                      [i \in DOMAIN data.options |-> data.options[i].name]
           ELSE ret.tag = "Ok"

\* C19 witness: finish() after a Malformed failure on a slash command.
C19_Witness ==
    /\ builderFailed
    /\ op.fn = "finish"
    /\ data.kind = "ChatInput"
    /\ IsErr(ret, "Trailing")

\* C20: an accessor that fails with BadOptionType or BadOptionValueType has
\* removed the option: the name is consumed, a later accessor call for it
\* returns an OptionVisitor without value and finish() does not report it.
\* One that fails with UnhandledSubcommand, NotChatInput or Malformed has
\* removed nothing.
C20_FailedAccessorConsumes ==
    /\ (/\ op.fn \in Accessors
        /\ (IsErr(ret, "BadOptionType") \/ IsErr(ret, "BadOptionValueType"))) =>
           /\ op.taken # None
           /\ op.name \in consumed
           /\ op.name \notin DOMAIN state.map
    /\ (op.fn \in Accessors /\ op.again) =>
           (ret.tag = "Ok" /\ ret.val = OptionVisitor(op.name, None))
    /\ (op.fn = "finish" /\ state.tag = "SlashCommand" /\ ret.tag = "Err") =>
           Range(ret.err.names) \cap consumed = {}
    /\ (op.fn \in Accessors /\ IsErr(ret, "UnhandledSubcommand")) =>
           /\ op.taken = None
           /\ consumed = {}
           /\ DOMAIN state.map = InnermostNames
    /\ (/\ op.fn \in Accessors
        /\ (IsErr(ret, "NotChatInput") \/ IsErr(ret, "Malformed"))) =>
           /\ op.taken = None
           /\ consumed = {}
           /\ state.tag = "Init"

\* C20 witness: visit_bool failed on the kind of one of two options and
\* only the other is left in the map.
C20_Witness ==
    /\ op.fn \in Accessors
    /\ IsErr(ret, "BadOptionType")
    /\ op.name \in consumed
    /\ state.tag = "SlashCommand"
    /\ DOMAIN state.map = InnermostNames \ {op.name}
    /\ DOMAIN state.map # {}

Users == DOMAIN data.resolved.users
Members == DOMAIN data.resolved.members
Messages == DOMAIN data.resolved.messages
TargetCalls == {"user", "message"}

\* C13 (as claimed): target().user() fails with NotUser unless the kind is
\* User; on a User invocation it fails with MissingOption("user") on an
\* empty users map, with Trailing(["user"]) on two or more entries, and
\* returns that user on exactly one.
C13_UserFromUsersMap ==
    op.fn = "user" =>
        IF data.kind # "User" THEN IsErr(ret, "NotUser")
        ELSE IF Users = {}
        THEN IsErr(ret, "MissingOption") /\ ret.err.name = "user"
        ELSE IF Cardinality(Users) >= 2
        THEN IsErr(ret, "Trailing") /\ ret.err.names = << "user" >>
        ELSE ret.tag = "Ok" /\ \E id \in Users : ret.val[1] = User(id)

\* C13 (amended): as claimed, except that the single user is returned only
\* when the members map holds at most one entry.
C13_UserFromUsersMapAmended ==
    op.fn = "user" =>
        IF data.kind # "User" THEN IsErr(ret, "NotUser")
        ELSE IF Users = {}
        THEN IsErr(ret, "MissingOption") /\ ret.err.name = "user"
        ELSE IF Cardinality(Users) >= 2
        THEN IsErr(ret, "Trailing") /\ ret.err.names = << "user" >>
        ELSE Cardinality(Members) <= 1 =>
                (ret.tag = "Ok" /\ \E id \in Users : ret.val[1] = User(id))

\* C13 witness: the single resolved user is returned.
C13_Witness ==
    /\ op.fn = "user"
    /\ data.kind = "User"
    /\ Cardinality(Users) = 1
    /\ ret.tag = "Ok"
    /\ ret.val[1] = User(CHOOSE id \in Users : TRUE)

\* C14: target().message() fails with NotMessage unless the kind is
\* Message; on a Message invocation it returns the single resolved message,
\* fails with MissingOption("message") on an empty messages map and with
\* Trailing(["message"]) on more than one entry.
C14_MessageFromMessagesMap ==
    op.fn = "message" =>
        IF data.kind # "Message" THEN IsErr(ret, "NotMessage")
        ELSE IF Messages = {}
        THEN IsErr(ret, "MissingOption") /\ ret.err.name = "message"
        ELSE IF Cardinality(Messages) > 1
        THEN IsErr(ret, "Trailing") /\ ret.err.names = << "message" >>
        ELSE ret.tag = "Ok" /\ \E id \in Messages : ret.val = Message(id)

\* C14 witness: message() on a user-context-menu invocation that does have
\* one resolved message.
C14_Witness ==
    /\ op.fn = "message"
    /\ data.kind = "User"
    /\ Cardinality(Messages) = 1
    /\ IsErr(ret, "NotMessage")

\* C15: target() with user() or message() can be called on every live
\* visitor, whatever its state and the invocation kind, and leaves the
\* visitor as it was, so that every typed accessor, visit_subcmd() and
\* finish() returns after it what it would have returned before it.
C15_TargetLeavesVisitor ==
    /\ [](alive => (ENABLED TargetUser /\ ENABLED TargetMessage))
    /\ [][ op'.fn \in TargetCalls =>
             /\ state' = state
             /\ data' = data
             /\ alive' = alive
             /\ consumed' = consumed
             /\ \A n \in Names : visit_opt(state', data', n) = visit_opt(state, data, n)
             /\ visit_subcmd(state', data') = visit_subcmd(state, data)
             /\ finish(state', data') = finish(state, data) ]_vars

\* C15 witness: user() was called on a slash command's visitor whose map is
\* built and still holds an option.
C15_Witness ==
    /\ op.fn = "user"
    /\ data.kind = "ChatInput"
    /\ state.tag = "SlashCommand"
    /\ DOMAIN state.map # {}

\* C17: on a User invocation with exactly one resolved user, user() returns
\* the member as None on an empty members map, as the entry on exactly one,
\* and fails with Trailing(["member"]) on more; with no or several users
\* the error names "user", whatever the members map holds.
C17_MemberOptional ==
    (op.fn = "user" /\ data.kind = "User") =>
        IF Cardinality(Users) = 1
        THEN IF Members = {}
             THEN ret.tag = "Ok" /\ ret.val[2] = None
             ELSE IF Cardinality(Members) = 1
             THEN ret.tag = "Ok" /\ \E id \in Members : ret.val[2] = Some(PartialMember(id))
             ELSE IsErr(ret, "Trailing") /\ ret.err.names = << "member" >>
        ELSE /\ ret.tag = "Err"
             /\ ret.err.kind \in {"MissingOption", "Trailing"}
             /\ ret.err.kind = "MissingOption" => ret.err.name = "user"
             /\ ret.err.kind = "Trailing" => ret.err.names = << "user" >>

\* C17 witness: both maps hold two entries and the error names the user.
C17_Witness ==
    /\ op.fn = "user"
    /\ data.kind = "User"
    /\ Cardinality(Users) = 2
    /\ Cardinality(Members) = 2
    /\ IsErr(ret, "Trailing")
    /\ ret.err.names = << "user" >>

\* The last accessor call was handed an option of the kind it expects that
\* carries no resolved value.
TookUnresolved ==
    /\ op.fn \in Accessors
    /\ op.taken # None
    /\ op.taken[1].kind = Var(op.fn)
    /\ op.taken[1].resolved = None

\* C21: an option of the accessor's kind without resolved value is treated
\* as absent, the accessor returns Ok(OptionVisitor(name, None)), on which
\* required() fails with MissingOption(name) and optional() returns None,
\* yet the option is removed from the map and finish() does not report its
\* name.
C21_UnresolvedIsAbsentButConsumed ==
    /\ TookUnresolved =>
           /\ ret = Ok(OptionVisitor(op.name, None))
           /\ required(ret.val) = Err(MissingOption(op.name))
           /\ optional(ret.val) = None
           /\ op.name \in consumed
           /\ state.tag = "SlashCommand"
           /\ op.name \notin DOMAIN state.map
           /\ \A r \in finish(state, data) :
                 r.tag = "Err" => op.name \notin Range(r.err.names)
    /\ (op.fn = "required" /\ op.ov.value = None) =>
           ret = Err(MissingOption(op.ov.name))
    /\ (op.fn = "finish" /\ state.tag = "SlashCommand" /\ ret.tag = "Err") =>
           Range(ret.err.names) \cap consumed = {}

\* C21 witness: the accessor was handed an option without resolved value
\* while another option stays in the map.
C21_Witness ==
    /\ TookUnresolved
    /\ ret.tag = "Ok"
    /\ ret.val.value = None
    /\ DOMAIN state.map # {}
    /\ op.name \notin DOMAIN state.map

=============================================================================
